---- MODULE Spec2Model ----
(***************************************************************************)
(* Model of the card-generation core of the BIN Search backend:            *)
(*   - app/services/rate_limiter.py  (EnhancedRateLimiter, the admission   *)
(*     controller "checkAndRecord")                                        *)
(*   - app/services/card_generator.py (validate_bin, get_card_length,      *)
(*     luhn_checksum, create_card_number, generate_test_card)              *)
(*                                                                         *)
(* Time is counted in whole seconds, as int(time.time()) does.  Windows,   *)
(* limits and TTLs are scaled down (see the bounds) so that a window can   *)
(* fill up and elapse inside a finite run; their order relations are the   *)
(* ones of the "auth" entry of rate_limits (burst < requests, the burst    *)
(* sub-window shorter than the window, the violation TTL longer than the   *)
(* window).                                                                *)
(***************************************************************************)
EXTENDS Integers, Sequences, FiniteSets, TLC

VARIABLES
  now,           \* int(time.time()), shared by every worker and by Redis
  sched,         \* workload discipline: "free", "serial", "paired" or "keys"
  faulty,        \* TRUE iff Redis operations may raise in this run
  hasRedis,      \* hasRedis[p]: self.redis_client is not None in worker p
  redis,         \* the shared store: sorted sets, counters and their TTLs
  memory_store,  \* memory_store[p]: the in-process fallback map of worker p
  proc,          \* proc[p]: position and locals of worker p's current call
  hist,          \* hist[p]: what worker p has answered so far (history)
  gens,          \* results of the generate_test_card calls made so far
  fn,            \* the last application of one of the generator's functions
  ip_limit       \* the per-IP usage keys in Redis and the card requests

vars ==
  <<now, sched, faulty, hasRedis, redis, memory_store, proc, hist, gens, fn,
    ip_limit>>

limiterVars == <<now, sched, faulty, hasRedis, redis, memory_store, proc, hist>>

(***************************************************************************)
(* Bounds of the model.                                                    *)
(***************************************************************************)
MaxTime == 4        \* the clock runs from 0 to MaxTime
MaxCalls == 4       \* check_rate_limit calls in one run (per worker when paired)
Limit == 3          \* rate_limits[action]["requests"], scaled
Burst == 2          \* rate_limits[action]["burst"], scaled
Window == 3         \* rate_limits[action]["window"], scaled
BurstWindow == 1    \* the literal 60 of the burst zcount, scaled
ViolationTTL == 4   \* the 3600 s expiry of the violation counter, scaled

(***************************************************************************)
(* Program constants.                                                      *)
(***************************************************************************)
BaseDelay == 60
DefaultMultiplier == 16
NoExpiry == -1

Procs == {1, 2}
IpAddrs == {"10.0.0.1", "10.0.0.2"}   \* request.client.host
Idents == {"user:1", "user:2"}
Actions == {"auth", "bin_lookup"}
Keys == Idents \X Actions

Min(a, b) == IF a < b THEN a ELSE b

\* self.rate_limits.get(action, self.rate_limits["default"])
RateLimits(action) == [requests |-> Limit, window |-> Window, burst |-> Burst]

\* self.penalty_multipliers
PenaltyMultipliers == <<1, 2, 4, 8, 16>>

\* _calculate_penalty_delay: the multiplier of min(violation_count, 5), or
\* the default 16.0 when that key is absent from the table (as for 0).
CalculatePenaltyDelay(violation_count) ==
  LET k == Min(violation_count, Len(PenaltyMultipliers))
      multiplier == IF k \in DOMAIN PenaltyMultipliers
                    THEN PenaltyMultipliers[k]
                    ELSE DefaultMultiplier
  IN  BaseDelay * multiplier

(***************************************************************************)
(* Redis primitives on one sorted set, modelled as the set of its members. *)
(* _record_request adds the member str(now) with score now, so a member is *)
(* identified by its second.                                               *)
(***************************************************************************)
ZRemRangeByScore(S, lo, hi) == {m \in S : ~(lo <= m /\ m <= hi)}
ZCount(S, lo, hi) == Cardinality({m \in S : lo <= m /\ m <= hi})
ZAdd(S, t) == S \cup {t}

\* EXPIRE only touches a key that exists; an empty sorted set does not exist.
ExpireAt(S, t, ttl) == IF S = {} THEN NoExpiry ELSE t + ttl

\* The entries of a list of seconds that lie inside the window ending at t.
InWindow(list, t, window) ==
  LET Inside(ts) == ts > t - window IN SelectSeq(list, Inside)

\* Mutant of MemClean: old timestamps are never dropped.
MemClean_KeepAll(list, t, window) == list

\* _memory_get_usage: the list comprehension that drops old timestamps
MemClean(list, t, window) ==
  LET Recent(ts) == ts > t - window IN SelectSeq(list, Recent)

(***************************************************************************)
(* The five store helpers of check_rate_limit.  r is the Redis store, m    *)
(* the calling worker's memory_store, useRedis is "self.redis_client is    *)
(* set", ok is FALSE when the Redis round trip raises.  raised is TRUE     *)
(* when the helper lets an exception escape to its caller.                 *)
(***************************************************************************)
MemoryGetUsage(r, m, key, window, t) ==
  LET cleaned == MemClean(m.z[key], t, window)
  IN  [count |-> Len(cleaned), r |-> r,
       m |-> [m EXCEPT !.z[key] = cleaned], raised |-> FALSE]

\* Mutant of GetCurrentUsage: a Redis error is not caught.
GetCurrentUsage_NoFallback(r, m, key, window, t, useRedis, ok) ==
  IF useRedis /\ ~ok
  THEN [count |-> 0, r |-> r, m |-> m, raised |-> TRUE]
  ELSE IF useRedis
  THEN LET z1 == ZRemRangeByScore(r.z[key], 0, t - window)
       IN  [count |-> Cardinality(z1),
            r |-> [r EXCEPT !.z[key] = z1,
                            !.zx[key] = ExpireAt(z1, t, window)],
            m |-> m, raised |-> FALSE]
  ELSE MemoryGetUsage(r, m, key, window, t)

GetCurrentUsage(r, m, key, window, t, useRedis, ok) ==
  IF useRedis /\ ok
  THEN LET z1 == ZRemRangeByScore(r.z[key], 0, t - window)
       IN  [count |-> Cardinality(z1),
            r |-> [r EXCEPT !.z[key] = z1,
                            !.zx[key] = ExpireAt(z1, t, window)],
            m |-> m, raised |-> FALSE]
  ELSE MemoryGetUsage(r, m, key, window, t)

\* check_rate_limit lines 207-213
BurstCount(r, key, t, useRedis, ok) ==
  IF useRedis /\ ok
  THEN [recent |-> ZCount(r.z[key], t - BurstWindow, t), raised |-> FALSE]
  ELSE [recent |-> 0, raised |-> FALSE]

GetViolationCount(r, m, id, useRedis, ok) ==
  IF useRedis
  THEN [count |-> IF ok THEN r.v[id] ELSE 0, raised |-> FALSE]
  ELSE [count |-> m.v[id], raised |-> FALSE]

RecordViolation(r, m, id, t, useRedis, ok) ==
  IF useRedis
  THEN IF ok
       THEN [r |-> [r EXCEPT !.v[id] = @ + 1, !.vx[id] = t + ViolationTTL],
             m |-> m, raised |-> FALSE]
       ELSE [r |-> r, m |-> m, raised |-> FALSE]
  ELSE [r |-> r, m |-> [m EXCEPT !.v[id] = @ + 1], raised |-> FALSE]

MemoryRecordRequest(r, m, key, t) ==
  [r |-> r, m |-> [m EXCEPT !.z[key] = Append(@, t)], raised |-> FALSE]

RecordRequest(r, m, key, window, t, useRedis, ok) ==
  IF useRedis /\ ok
  THEN LET z1 == ZAdd(r.z[key], t)
       IN  [r |-> [r EXCEPT !.z[key] = z1, !.zx[key] = ExpireAt(z1, t, window)],
            m |-> m, raised |-> FALSE]
  ELSE MemoryRecordRequest(r, m, key, t)

(***************************************************************************)
(* State of the limiter.                                                   *)
(***************************************************************************)
IdleCall ==
  [pc |-> "idle", id |-> "user:1", act |-> "auth",
   current_count |-> 0, recent_requests |-> 0, violation_count |-> 0,
   penalty_delay |-> 0, result |-> "none", retry_after |-> 0, ncalls |-> 0,
   fresh |-> FALSE, failed |-> FALSE, overtaken |-> FALSE, lastSlot |-> FALSE]

EmptyRedis ==
  [z |-> [k \in Keys |-> {}], zx |-> [k \in Keys |-> NoExpiry],
   v |-> [i \in Idents |-> 0], vx |-> [i \in Idents |-> NoExpiry]]

EmptyMemory == [z |-> [k \in Keys |-> <<>>], v |-> [i \in Idents |-> 0]]

\* What a worker has answered so far:
\*   served[k]      - the seconds of the admitted calls of key k that are
\*                    still inside the window
\*   denials[i]     - the number of denials of identity i
\*   lastDenial[i]  - the second of the last denial of identity i, as a set
\*                    (empty while i was never denied)
\*   lockedUntil[k] - the latest second named by a Retry-After given for k
\*   earlyAdmit     - a call was admitted before lockedUntil of its key
EmptyHist ==
  [served |-> [k \in Keys |-> <<>>], denials |-> [i \in Idents |-> 0],
   lastDenial |-> [i \in Idents |-> {}],
   lockedUntil |-> [k \in Keys |-> 0], earlyAdmit |-> FALSE]

\* No usage key in Redis, no card request yet.  usage[a] is the value of the
\* key ip_limit:{a}:cc_generation: <<>> when the key is absent, else <<count>>.
\* passed and served are history: the requests of an address with a BIN
\* validate_bin accepts that check_rate_limit let through, and those that
\* were answered with a card.
EmptyIpLimit ==
  [usage |-> [a \in IpAddrs |-> <<>>],
   req |-> [p \in Procs |-> [pc |-> "idle", addr |-> "", bin |-> <<>>,
                              status |-> 0]],
   requests |-> 0,
   passed |-> [a \in IpAddrs |-> 0],
   served |-> [a \in IpAddrs |-> 0]]

InitStores ==
  /\ now = 0
  /\ redis = EmptyRedis
  /\ memory_store = [p \in Procs |-> EmptyMemory]
  /\ proc = [p \in Procs |-> IdleCall]
  /\ hist = [p \in Procs |-> EmptyHist]
  /\ gens = <<>>
  /\ fn = [op |-> "none"]
  /\ ip_limit = EmptyIpLimit

\* The workers share a reliable Redis and their calls interleave freely.
Init ==
  /\ InitStores
  /\ sched = "free"
  /\ faulty = FALSE
  /\ hasRedis = [p \in Procs |-> TRUE]

\* One call at a time; any mix of store modes; Redis may fail.
InitSerial ==
  /\ InitStores
  /\ sched = "serial"
  /\ faulty \in BOOLEAN
  /\ hasRedis \in [Procs -> BOOLEAN]

\* Worker 1 on a reliable Redis and worker 2 on the in-process map are fed
\* the same calls at the same seconds.
InitPaired ==
  /\ InitStores
  /\ sched = "paired"
  /\ faulty = FALSE
  /\ hasRedis = [p \in Procs |-> p = 1]

\* One call at a time, each within one second, on one of three keys (two
\* identities on one action, one identity on two actions); worker 1 on a
\* reliable Redis, worker 2 on the in-process map.
InitKeys ==
  /\ InitStores
  /\ sched = "keys"
  /\ faulty = FALSE
  /\ hasRedis = [p \in Procs |-> p = 1]

InFlight(p) == proc[p].pc \notin {"idle", "done"}
Oks == IF faulty THEN BOOLEAN ELSE {TRUE}
\* Mutant of KeyOf: the key is built from the action alone.
KeyOf_ActionOnly(p) == <<"user:1", proc[p].act>>

\* _get_rate_limit_key(identifier, action) of the call of worker p
KeyOf(p) == <<proc[p].id, proc[p].act>>

\* Every marker the worker can count for the key is older than the window.
AllEvicted(p, key) ==
  /\ \A ts \in redis.z[key] : ts <= now - RateLimits(key[2]).window
  /\ \A i \in 1..Len(memory_store[p].z[key]) :
       memory_store[p].z[key][i] <= now - RateLimits(key[2]).window

\* An exception that escapes check_rate_limit ends the call without answer.
Raise(p) == [proc[p] EXCEPT !.pc = "done", !.result = "StoreError"]

\* The call returns: its locals go out of scope; its answer stays visible
\* until the worker's next call, with the history flags of the call:
\*   fresh     - when the call began, every marker of its key was older than
\*               the window
\*   failed    - a Redis round trip of the call raised
\*   lastSlot  - the count this call read was one below the limit
\*   overtaken - between this call's count and its end, another worker
\*               recorded in Redis a request of the same key that had itself
\*               counted one below the limit
Return(p, result, retry_after, failed) ==
  [IdleCall EXCEPT !.pc = "done", !.id = proc[p].id, !.act = proc[p].act,
                   !.result = result, !.retry_after = retry_after,
                   !.ncalls = proc[p].ncalls, !.fresh = proc[p].fresh,
                   !.failed = proc[p].failed \/ failed,
                   !.overtaken = proc[p].overtaken,
                   !.lastSlot = proc[p].current_count
                                  = RateLimits(proc[p].act).requests - 1]

\* The answer history is kept in the paired runs, where the claims about
\* sequences of answers are checked.
Keep(h) == IF sched = "paired" THEN h ELSE hist

(***************************************************************************)
(* One second passes.  Redis drops the keys whose TTL has run out.         *)
(***************************************************************************)
Tick ==
  /\ now < MaxTime
  /\ sched = "keys" => \A p \in Procs : ~InFlight(p)
  /\ sched = "paired" =>
       /\ \A p \in Procs : ~InFlight(p)
       /\ proc[1].ncalls = proc[2].ncalls
  /\ now' = now + 1
  /\ redis' =
       [z  |-> [k \in Keys |->
                  IF redis.zx[k] # NoExpiry /\ redis.zx[k] <= now + 1
                  THEN {} ELSE redis.z[k]],
        zx |-> [k \in Keys |->
                  IF redis.zx[k] # NoExpiry /\ redis.zx[k] <= now + 1
                  THEN NoExpiry ELSE redis.zx[k]],
        v  |-> [i \in Idents |->
                  IF redis.vx[i] # NoExpiry /\ redis.vx[i] <= now + 1
                  THEN 0 ELSE redis.v[i]],
        vx |-> [i \in Idents |->
                  IF redis.vx[i] # NoExpiry /\ redis.vx[i] <= now + 1
                  THEN NoExpiry ELSE redis.vx[i]]]
  /\ hist' = [p \in Procs |->
               [hist[p] EXCEPT !.served =
                  [k \in Keys |->
                     InWindow(hist[p].served[k], now + 1,
                              RateLimits(k[2]).window)]]]
  /\ UNCHANGED <<sched, faulty, hasRedis, memory_store, proc, gens, fn, ip_limit>>

(***************************************************************************)
(* check_rate_limit, lines 196-202: a request enters worker p.             *)
(***************************************************************************)
Start(p, id, act) ==
  /\ ~InFlight(p)
  /\ sched # "keys" => id = "user:1" /\ act = "auth"
  /\ sched = "keys" => id = "user:1" \/ act = "auth"
  /\ sched = "free" => proc[1].ncalls + proc[2].ncalls < MaxCalls
  /\ sched \in {"serial", "keys"} =>
       /\ proc[1].ncalls + proc[2].ncalls < MaxCalls
       /\ \A q \in Procs : ~InFlight(q)
  /\ sched = "paired" =>
       /\ \A q \in Procs : ~InFlight(q)
       /\ IF p = 1
          THEN proc[1].ncalls = proc[2].ncalls /\ proc[1].ncalls < MaxCalls
          ELSE /\ proc[2].ncalls < proc[1].ncalls
               /\ <<id, act>> = KeyOf(1)
  /\ proc' = [proc EXCEPT ![p] =
       [IdleCall EXCEPT !.pc = "usage", !.id = id, !.act = act,
                        !.ncalls = proc[p].ncalls + 1,
                        !.fresh = AllEvicted(p, <<id, act>>)]]
  /\ UNCHANGED <<now, sched, faulty, hasRedis, redis, memory_store, hist, gens, fn, ip_limit>>

\* line 204: current_count, window_start = self._get_current_usage(key, window)
Usage(p) ==
  /\ proc[p].pc = "usage"
  /\ \E ok \in Oks :
       LET u == GetCurrentUsage(redis, memory_store[p], KeyOf(p),
                                RateLimits(proc[p].act).window, now,
                                hasRedis[p], ok)
       IN  /\ redis' = u.r
           /\ memory_store' = [memory_store EXCEPT ![p] = u.m]
           /\ proc' = [proc EXCEPT ![p] =
                IF u.raised THEN Raise(p)
                ELSE [proc[p] EXCEPT !.pc = "burst", !.current_count = u.count,
                                     !.failed = @ \/ (hasRedis[p] /\ ~ok)]]
  /\ UNCHANGED <<now, sched, faulty, hasRedis, hist, gens, fn, ip_limit>>

\* lines 206-213: the burst count
BurstCheck(p) ==
  /\ proc[p].pc = "burst"
  /\ \E ok \in Oks :
       LET b == BurstCount(redis, KeyOf(p), now, hasRedis[p], ok)
       IN  proc' = [proc EXCEPT ![p] =
             IF b.raised THEN Raise(p)
             ELSE [proc[p] EXCEPT !.pc = "violations",
                                  !.recent_requests = b.recent,
                                  !.failed = @ \/ (hasRedis[p] /\ ~ok)]]
  /\ UNCHANGED <<now, sched, faulty, hasRedis, redis, memory_store, hist, gens, fn, ip_limit>>

\* lines 215-228: violation count, penalty and the two limit checks
Decide(p) ==
  /\ proc[p].pc = "violations"
  /\ \E ok \in Oks :
       LET c == GetViolationCount(redis, memory_store[p], proc[p].id,
                                  hasRedis[p], ok)
           cfg == RateLimits(proc[p].act)
           rate_limited == \/ proc[p].current_count >= cfg.requests
                           \/ proc[p].recent_requests >= cfg.burst
       IN  proc' = [proc EXCEPT ![p] =
             IF c.raised THEN Raise(p)
             ELSE [proc[p] EXCEPT
                     !.pc = IF rate_limited THEN "limited" ELSE "record",
                     !.violation_count = c.count,
                     !.penalty_delay = CalculatePenaltyDelay(c.count),
                     !.failed = @ \/ (hasRedis[p] /\ ~ok)]]
  /\ UNCHANGED <<now, sched, faulty, hasRedis, redis, memory_store, hist, gens, fn, ip_limit>>

\* lines 230-256: record the violation and answer 429 with Retry-After
Deny(p) ==
  /\ proc[p].pc = "limited"
  /\ \E ok \in Oks :
       LET w == RecordViolation(redis, memory_store[p], proc[p].id, now,
                                hasRedis[p], ok)
       IN  /\ redis' = w.r
           /\ memory_store' = [memory_store EXCEPT ![p] = w.m]
           /\ proc' = [proc EXCEPT ![p] =
                IF w.raised THEN Raise(p)
                ELSE Return(p, "Denied", proc[p].penalty_delay,
                            hasRedis[p] /\ ~ok)]
           /\ hist' = Keep([hist EXCEPT
                 ![p].denials[proc[p].id] = @ + 1,
                 ![p].lastDenial[proc[p].id] = {now},
                 ![p].lockedUntil[KeyOf(p)] =
                    IF now + proc[p].penalty_delay > @
                    THEN now + proc[p].penalty_delay ELSE @])
  /\ UNCHANGED <<now, sched, faulty, hasRedis, gens, fn, ip_limit>>

\* lines 258-268: record the request and answer "allowed"
Admit(p) ==
  /\ proc[p].pc = "record"
  /\ \E ok \in Oks :
       LET w == RecordRequest(redis, memory_store[p], KeyOf(p),
                              RateLimits(proc[p].act).window, now,
                              hasRedis[p], ok)
           \* workers that counted this key in Redis before this record,
           \* when this call had counted one below the limit
           Stale(q) == /\ q # p
                       /\ proc[q].pc \in {"burst", "violations", "record"}
                       /\ KeyOf(q) = KeyOf(p)
                       /\ hasRedis[p] /\ hasRedis[q]
                       /\ proc[p].current_count
                            = RateLimits(proc[p].act).requests - 1
       IN  /\ redis' = w.r
           /\ memory_store' = [memory_store EXCEPT ![p] = w.m]
           /\ proc' = [q \in Procs |->
                IF q = p
                THEN IF w.raised THEN Raise(p)
                     ELSE Return(p, "Admitted", 0, hasRedis[p] /\ ~ok)
                ELSE IF Stale(q) THEN [proc[q] EXCEPT !.overtaken = TRUE]
                     ELSE proc[q]]
           /\ hist' = Keep([hist EXCEPT
                 ![p].served[KeyOf(p)] = Append(@, now),
                 ![p].earlyAdmit = @ \/ now < hist[p].lockedUntil[KeyOf(p)]])
  /\ UNCHANGED <<now, sched, faulty, hasRedis, gens, fn, ip_limit>>

(***************************************************************************)
(* Card generation (card_generator.py).  A string is the sequence of its   *)
(* characters: the digits 0..9, SP for a whitespace character, NonDigit for *)
(* a letter.                                                               *)
(***************************************************************************)
MaxGen == 2         \* generate_test_card calls in one run

SP == 10
NonDigit == 11      \* a character that is neither a digit nor whitespace

TEST_BINS ==
  { <<4,1,1,1,1,1>>, <<5,5,5,5,5,5>>, <<3,7,8,2,8,2>>, <<3,7,8,7,3,4>>,
    <<3,7,1,4,4,9>>, <<6,0,1,1,1,1>>, <<6,3,0,4,9,5>>, <<6,3,0,4,9,0>>,
    <<3,6,0,0,0,0>>, <<3,0,5,6,9,3>>, <<3,8,5,2,0,0>>, <<6,0,1,1,0,0>>,
    <<3,5,3,0,1,1>>, <<3,5,6,6,0,0>> }

AVS_POSTAL_CODES == {"US", "IT", "GB", "CA", "AU", "DE", "FR"}

\* Rows of the bin_data table (bin, brand, type) the runs are made against.
BinDataRows ==
  { [bin |-> <<4,2,4,2,4,2>>, brand |-> "VISA", type |-> "CREDIT"],
    [bin |-> <<4,1,1,1,1,1>>, brand |-> "VISA", type |-> "CREDIT"],
    [bin |-> <<4,0,0,0,0,0>>, brand |-> "VISA", type |-> "DEBIT"],
    [bin |-> <<5,3,1,1,0,6>>, brand |-> "MASTERCARD", type |-> "PREPAID"],
    [bin |-> <<3,4,0,0,0,0>>, brand |-> "AMERICAN EXPRESS", type |-> "CREDIT"],
    [bin |-> <<3,7,8,2,8,2>>, brand |-> "AMERICAN EXPRESS", type |-> "CREDIT"],
    [bin |-> <<3,6,2,2,7,2>>, brand |-> "DINERS CLUB", type |-> "CREDIT"],
    [bin |-> <<6,0,1,1,2,0>>, brand |-> "Discover", type |-> "CREDIT"],
    [bin |-> <<6,2,0,0,0,0>>, brand |-> "", type |-> ""] }

\* Rows of the blocked_bins table.
BlockedBinRows == { [bin |-> <<4,0,0,0,0,0>>, reason |-> "fraud"] }

\* The prefixes submitted to generate_test_card.
GenInputs ==
  { <<4,2,4,2,4,2>>, <<4,2,4,2,4,2,9,9>>, <<SP,4,2,4,2,4,2>>,
    <<4,1,1,1,1,1>>, <<4,2,4,2,4,2,9,9,9>>, <<SP,3,7,8,2,8,2,SP>>,
    <<4,0,0,0,0,0>>, <<3,0,5,6,9,3>>, <<5,3,1,1,0,6>>, <<3,4,0,0,0,0>>,
    <<3,6,2,2,7,2>>, <<6,0,1,1,2,0>>, <<6,2,0,0,0,0>>, <<9,9,9,9,9,9>>,
    <<4,2,4,2,4,2,NonDigit>>, <<1,2>>, <<>> }

AvsChoices == {"", "US", "ZZ"}

\* str.strip()
RECURSIVE LStrip(_)
LStrip(s) == IF s # <<>> /\ Head(s) = SP THEN LStrip(Tail(s)) ELSE s

RECURSIVE RStrip(_)
RStrip(s) ==
  IF s # <<>> /\ s[Len(s)] = SP THEN RStrip(SubSeq(s, 1, Len(s) - 1)) ELSE s

Strip(s) == RStrip(LStrip(s))

\* s[:6]
First6(s) == SubSeq(s, 1, Min(6, Len(s)))

\* str.upper() on the brand and type values of the tables
Upper(s) == IF s = "Discover" THEN "DISCOVER" ELSE s

\* needle in haystack, for the needles of get_card_length and the upper-cased
\* brand and type values of the tables
Contains(haystack, needle) ==
  CASE needle = "AMERICAN EXPRESS" -> haystack = "AMERICAN EXPRESS"
    [] needle = "AMEX"             -> haystack = "AMEX"
    [] needle = "DINERS"           -> haystack = "DINERS CLUB"
    [] needle = "DISCOVER"         -> haystack = "DISCOVER"
    [] needle = "PREPAID"          -> haystack = "PREPAID"
    [] OTHER                       -> FALSE

\* Mutant of ValidateBin: the bin_data lookup comes before the blocklists.
ValidateBin_LookupFirst(bin_input) ==
  LET bin_str == Strip(bin_input)
      bin_prefix == First6(bin_str)
      blocked == {b \in BlockedBinRows : b.bin = bin_prefix}
      found == {d \in BinDataRows : d.bin = bin_prefix}
      None == [bin |-> <<>>, brand |-> "", type |-> ""]
  IN  IF Len(bin_str) < 6
      THEN [is_valid |-> FALSE, message |-> "TooShort", bin_data |-> None]
      ELSE IF found = {}
      THEN [is_valid |-> FALSE, message |-> "NotFound", bin_data |-> None]
      ELSE IF bin_prefix \in TEST_BINS
      THEN [is_valid |-> FALSE, message |-> "TestBinBlocked", bin_data |-> None]
      ELSE IF blocked # {}
      THEN [is_valid |-> FALSE, message |-> "BinBlocked", bin_data |-> None]
      ELSE [is_valid |-> TRUE, message |-> "Valid",
            bin_data |-> CHOOSE d \in found : TRUE]

\* Mutant of ValidateBin: the TEST_BINS check is missing.
ValidateBin_NoTestBins(bin_input) ==
  LET bin_str == Strip(bin_input)
      bin_prefix == First6(bin_str)
      blocked == {b \in BlockedBinRows : b.bin = bin_prefix}
      found == {d \in BinDataRows : d.bin = bin_prefix}
      None == [bin |-> <<>>, brand |-> "", type |-> ""]
  IN  IF Len(bin_str) < 6
      THEN [is_valid |-> FALSE, message |-> "TooShort", bin_data |-> None]
      ELSE IF blocked # {}
      THEN [is_valid |-> FALSE, message |-> "BinBlocked", bin_data |-> None]
      ELSE IF found = {}
      THEN [is_valid |-> FALSE, message |-> "NotFound", bin_data |-> None]
      ELSE [is_valid |-> TRUE, message |-> "Valid",
            bin_data |-> CHOOSE d \in found : TRUE]

\* validate_bin: (is_valid, message, bin_data)
ValidateBin(bin_input) ==
  LET bin_str == Strip(bin_input)
      bin_prefix == First6(bin_str)
      blocked == {b \in BlockedBinRows : b.bin = bin_prefix}
      found == {d \in BinDataRows : d.bin = bin_prefix}
      None == [bin |-> <<>>, brand |-> "", type |-> ""]
  IN  IF Len(bin_str) < 6
      THEN [is_valid |-> FALSE, message |-> "TooShort", bin_data |-> None]
      ELSE IF bin_prefix \in TEST_BINS
      THEN [is_valid |-> FALSE, message |-> "TestBinBlocked", bin_data |-> None]
      ELSE IF blocked # {}
      THEN [is_valid |-> FALSE, message |-> "BinBlocked", bin_data |-> None]
      ELSE IF found = {}
      THEN [is_valid |-> FALSE, message |-> "NotFound", bin_data |-> None]
      ELSE [is_valid |-> TRUE, message |-> "Valid",
            bin_data |-> CHOOSE d \in found : TRUE]

\* get_card_length; choice is the index random.choice picks
GetCardLength(brand, card_type, choice) ==
  LET brand_upper == Upper(brand)
  IN  IF Contains(brand_upper, "AMERICAN EXPRESS") \/ Contains(brand_upper, "AMEX")
      THEN 15
      ELSE IF Contains(brand_upper, "DINERS") THEN <<14, 16>>[choice]
      ELSE IF Contains(brand_upper, "DISCOVER") THEN <<16, 19>>[choice]
      ELSE IF card_type # "" /\ Contains(Upper(card_type), "PREPAID") THEN 16
      ELSE 16

\* luhn_checksum
RECURSIVE LuhnSum(_, _)
LuhnSum(digits, i) ==
  \* i counts the digits from the right, starting at 1
  IF i > Len(digits) THEN 0
  ELSE LET d == digits[Len(digits) + 1 - i]
       IN  (IF i % 2 = 1 THEN d ELSE ((d * 2) \div 10) + ((d * 2) % 10))
             + LuhnSum(digits, i + 1)

LuhnChecksum(card_number) == LuhnSum(card_number, 1) % 10 = 0

\* The check-digit loop that ends create_card_number (lines 172-177): the
\* first of 0..9 that makes the number pass luhn_checksum, else the number
\* with "0" appended.  passing is the set of the candidates that pass;
\* fallback is TRUE when line 177 is reached.
ResolveCheckDigit_Range9(partial_number) ==
  LET passing == {c \in 0..8 : LuhnChecksum(Append(partial_number, c))}
  IN  IF passing # {}
      THEN [full_number |-> Append(partial_number,
                                   CHOOSE c \in passing :
                                     \A e \in passing : c <= e),
            fallback |-> FALSE]
      ELSE [full_number |-> Append(partial_number, 0), fallback |-> TRUE]

ResolveCheckDigit(partial_number) ==
  LET passing == {c \in 0..9 : LuhnChecksum(Append(partial_number, c))}
  IN  IF passing # {}
      THEN [full_number |-> Append(partial_number,
                                   CHOOSE c \in passing :
                                     \A e \in passing : c <= e),
            fallback |-> FALSE]
      ELSE [full_number |-> Append(partial_number, 0), fallback |-> TRUE]

\* Calendar arithmetic of datetime + timedelta(days = n), done as datetime
\* does it, on the ordinal of the date.  A date is a record [y, m, d].
IsLeap(y) == (y % 4 = 0 /\ y % 100 # 0) \/ y % 400 = 0

DaysInMonth(y, m) ==
  IF m = 2 THEN (IF IsLeap(y) THEN 29 ELSE 28)
  ELSE IF m \in {4, 6, 9, 11} THEN 30 ELSE 31

DaysBeforeYear(y) ==
  (y - 1) * 365 + ((y - 1) \div 4) - ((y - 1) \div 100) + ((y - 1) \div 400)

DaysBeforeMonth(y, m) ==
  <<0, 31, 59, 90, 120, 151, 181, 212, 243, 273, 304, 334>>[m]
    + (IF m > 2 /\ IsLeap(y) THEN 1 ELSE 0)

ToOrdinal(date) ==
  DaysBeforeYear(date.y) + DaysBeforeMonth(date.y, date.m) + date.d

FromOrdinal(n) ==
  LET y == CHOOSE yy \in ((n \div 366) - 1)..((n \div 365) + 1) :
             DaysBeforeYear(yy) < n /\ n <= DaysBeforeYear(yy + 1)
      m == CHOOSE mm \in 1..12 :
             /\ DaysBeforeYear(y) + DaysBeforeMonth(y, mm) < n
             /\ n <= DaysBeforeYear(y) + DaysBeforeMonth(y, mm)
                       + DaysInMonth(y, mm)
  IN  [y |-> y, m |-> m,
       d |-> n - DaysBeforeYear(y) - DaysBeforeMonth(y, m)]

AddDays(date, n) == FromOrdinal(ToOrdinal(date) + n)

\* The range random.randint draws months_to_add from (lines 208-213).
MonthsToAddRange(card_type) ==
  IF card_type # "" /\ Contains(Upper(card_type), "PREPAID")
  THEN 12..24 ELSE 36..60

\* Mutant of GenerateExpiry: months_to_add is taken as a number of days.
GenerateExpiry_DaysNotScaled(current_date, months_to_add) ==
  LET expiry_date == AddDays(current_date, months_to_add)
  IN  [month |-> expiry_date.m, year |-> expiry_date.y]

\* generate_expiry: current_date is datetime.now(), months_to_add the draw
\* of random.randint; the result is strftime("%m/%Y").
GenerateExpiry(current_date, months_to_add) ==
  LET expiry_date == AddDays(current_date, months_to_add * 30)
  IN  [month |-> expiry_date.m, year |-> expiry_date.y]

\* The expiry of generate_card_with_avs (premium_features.py, lines 109-112):
\* f"{exp_month:02d}/{str(exp_year)[2:]}" with the two draws of randint.
AvsExpiry(exp_year, exp_month) == [month |-> exp_month, year |-> exp_year]

\* expiry = None, or the empty string: falsy in "if seed and expiry"
NoneExpiry == [month |-> 0, year |-> 0]

\* card_number.startswith(('34', '37'))
StartsWith34Or37(card_number) ==
  /\ Len(card_number) >= 2
  /\ card_number[1] = 3
  /\ card_number[2] \in {4, 7}

\* generate_cvv.  hash_digest is hashlib.sha256(seed_string).hexdigest() as
\* the sequence of its hexadecimal characters (0..15), random_cvv the digits
\* that random.randint draws on line 199.
GenerateCvv(card_number, expiry, seed, hash_digest, random_cvv) ==
  LET cvv_length == IF StartsWith34Or37(card_number) THEN 4 ELSE 3
      isdigit(c) == c <= 9
      digits == SelectSeq(hash_digest, isdigit)
      cvv == SubSeq(digits, 1, Min(cvv_length, Len(digits)))
  IN  IF seed /\ expiry # NoneExpiry /\ Len(cvv) = cvv_length
      THEN cvv
      ELSE SubSeq(random_cvv, 1, cvv_length)

\* generate_avs_postal_code: a postal code of the country (the pick-th of
\* its list), or None ("") for a country that is not in the table.
GenerateAvsPostalCode(country_code, pick) ==
  IF Upper(country_code) \in AVS_POSTAL_CODES
  THEN <<Upper(country_code), pick>>
  ELSE <<>>

\* format_card_display.  For a number of 15 characters line 232 formats it;
\* for any other length line 234 evaluates number[i:i+4] with i unbound and
\* raises NameError.
FormatCardDisplay(number, cvv, expiry, postal_code) ==
  IF Len(number) = 15
  THEN [raised |-> "", number |-> number, cvv |-> cvv, expiry |-> expiry,
        postal_code |-> postal_code]
  ELSE [raised |-> "NameError", number |-> <<>>, cvv |-> <<>>,
        expiry |-> NoneExpiry, postal_code |-> <<>>]

\* Mutant of CreateCardNumber: the call does not raise and returns the
\* prefix filled up with zeros to the target length.
CreateCardNumber_NoRaise(bin_prefix, bin_info, choice) ==
  LET target_length == GetCardLength(bin_info.brand, bin_info.type, choice)
      bin_len == Len(bin_prefix)
      remaining_digits == target_length - bin_len - 1
  IN  [raised |-> "",
       number |-> bin_prefix \o [k \in 1..(remaining_digits + 1) |-> 0],
       candidates |-> <<[k \in 1..remaining_digits |-> 0]>>,
       target_length |-> target_length, bin_len |-> bin_len,
       remaining_digits |-> remaining_digits]

\* create_card_number.  Lines 98-104 fix the length and the number of digits
\* to draw; the first pass of the attempt loop then evaluates
\* {i: 0 for _ in range(10)} (line 114), where the name i is bound nowhere in
\* the function or the module, so the call raises NameError before a digit
\* is drawn: neither the pattern filter (lines 136-160), nor the check-digit
\* loops, nor the fallback (lines 167-177) is reached, and no number is
\* returned.  candidates is the sequence of the digit lists (random_digits)
\* the attempt loop completed, one per pass that reached line 134: none.
CreateCardNumber(bin_prefix, bin_info, choice) ==
  LET target_length == GetCardLength(bin_info.brand, bin_info.type, choice)
      bin_len == Len(bin_prefix)
      remaining_digits == target_length - bin_len - 1
  IN  [raised |-> "NameError", number |-> <<>>, candidates |-> <<>>,
       target_length |-> target_length, bin_len |-> bin_len,
       remaining_digits |-> remaining_digits]

\* generate_test_card: validate, then build the card.  A ValueError of
\* validate_bin, the exception of create_card_number, the ValueError of the
\* AVS step and the exception of format_card_display end the call without a
\* card.  rnd holds the random draws and the clock reading of the call.
GenerateTestCard(bin_input, include_avs, avs_country, rnd) ==
  LET v == ValidateBin(bin_input)
      c == CreateCardNumber(bin_input, v.bin_data, rnd.choice)
      expiry == GenerateExpiry(rnd.current_date, rnd.months_to_add)
      cvv == GenerateCvv(c.number, expiry, TRUE, rnd.hash_digest,
                         rnd.random_cvv)
      postal_code == IF include_avs /\ avs_country # ""
                     THEN GenerateAvsPostalCode(avs_country, rnd.pick)
                     ELSE <<>>
      f == FormatCardDisplay(c.number, cvv, expiry, postal_code)
      base == [input |-> bin_input, include_avs |-> include_avs,
               avs_country |-> avs_country, brand |-> v.bin_data.brand,
               type |-> v.bin_data.type, outcome |-> "ValueError",
               message |-> v.message, synthesized |-> FALSE,
               created |-> FALSE, target_length |-> 0, candidates |-> <<>>,
               number |-> <<>>,
               cvv |-> <<>>, expiry |-> NoneExpiry, postal_code |-> <<>>]
      entered == [base EXCEPT !.synthesized = TRUE,
                              !.created = (c.raised = ""),
                              !.target_length = c.target_length,
                              !.candidates = c.candidates]
  IN  IF ~v.is_valid THEN base
      ELSE IF c.raised # ""
      THEN [entered EXCEPT !.outcome = c.raised, !.message = ""]
      ELSE IF include_avs /\ avs_country # "" /\ postal_code = <<>>
      THEN [entered EXCEPT !.message = "AvsNotSupported"]
      ELSE IF f.raised # ""
      THEN [entered EXCEPT !.outcome = f.raised, !.message = ""]
      ELSE [entered EXCEPT !.outcome = "Card", !.message = "",
                           !.number = f.number, !.cvv = f.cvv,
                           !.expiry = f.expiry,
                           !.postal_code = f.postal_code]

InitGen ==
  /\ InitStores
  /\ sched = "serial"
  /\ faulty = FALSE
  /\ hasRedis = [p \in Procs |-> FALSE]

\* The draws of one generate_test_card call.  random.choice of
\* get_card_length is the only draw made before create_card_number raises;
\* the later ones are never consumed and have one value each.
GenDraws ==
  [choice : 1..2,
   current_date : {[y |-> 2024, m |-> 1, d |-> 1]},
   months_to_add : {36},
   hash_digest : {<<0, 1, 2, 3>>},
   random_cvv : {<<0, 0, 0, 0>>},
   pick : {1}]

\* One generate_test_card call.
Generate(bin_input, include_avs, avs_country, rnd) ==
  /\ Len(gens) < MaxGen
  /\ gens' = Append(gens, GenerateTestCard(bin_input, include_avs,
                                           avs_country, rnd))
  /\ UNCHANGED <<limiterVars, fn, ip_limit>>

NextGen ==
  \E bin_input \in GenInputs, include_avs \in BOOLEAN,
     avs_country \in AvsChoices, rnd \in GenDraws :
    Generate(bin_input, include_avs, avs_country, rnd)

SpecGen == InitGen /\ [][NextGen]_vars

\* The input names a prefix: six characters after trimming.
PrefixOf(bin_input) == First6(Strip(bin_input))

IsBlocked(bin_input) ==
  /\ Len(Strip(bin_input)) >= 6
  /\ \/ PrefixOf(bin_input) \in TEST_BINS
     \/ \E b \in BlockedBinRows : b.bin = PrefixOf(bin_input)

\* The input is accepted by the classifier: well formed, not blocked, known.
IsAccepted(bin_input) ==
  /\ Len(Strip(bin_input)) >= 6
  /\ ~IsBlocked(bin_input)
  /\ \E d \in BinDataRows : d.bin = PrefixOf(bin_input)

(***************************************************************************)
(* C1.  For every accepted prefix and every brand, generate returns a card *)
(* whose number passes the mod-10 Luhn checksum.                           *)
(***************************************************************************)
C1_ChecksumValid ==
  \A n \in 1..Len(gens) :
    IsAccepted(gens[n].input) =>
      gens[n].outcome = "Card" /\ LuhnChecksum(gens[n].number)

(***************************************************************************)
(* C2.  An input whose first six digits are on the blocklist (TEST_BINS or *)
(* the blocked_bins table) ends in a Blocked error: create_card_number is  *)
(* not invoked and no number is produced.                                  *)
(***************************************************************************)
C2_BlockedNeverSynthesized ==
  \A n \in 1..Len(gens) :
    IsBlocked(gens[n].input) =>
      /\ gens[n].outcome = "ValueError"
      /\ gens[n].message \in {"TestBinBlocked", "BinBlocked"}
      /\ ~gens[n].synthesized
      /\ gens[n].number = <<>>

\* Witness of C2: blocked prefixes that the bin_data table knows, one from
\* TEST_BINS and one from blocked_bins, have been submitted and refused.
C2_Witness ==
  /\ \E n \in 1..Len(gens) :
       /\ PrefixOf(gens[n].input) \in TEST_BINS
       /\ \E d \in BinDataRows : d.bin = PrefixOf(gens[n].input)
       /\ gens[n].message = "TestBinBlocked"
  /\ \E n \in 1..Len(gens) :
       /\ \E b \in BlockedBinRows : b.bin = PrefixOf(gens[n].input)
       /\ gens[n].message = "BinBlocked"

(***************************************************************************)
(* C9.  For every accepted input, generate returns a card whose number     *)
(* begins with the six digits of the requested prefix.                     *)
(***************************************************************************)
C9_PrefixPreserved ==
  \A n \in 1..Len(gens) :
    IsAccepted(gens[n].input) =>
      /\ gens[n].outcome = "Card"
      /\ Len(gens[n].number) >= 6
      /\ First6(gens[n].number) = PrefixOf(gens[n].input)

(***************************************************************************)
(* C10.  The length fixed for a generated number is a function of brand    *)
(* and category: two generations for BIN records with the same brand and   *)
(* category fix the same length, whatever the random choices.              *)
(***************************************************************************)
C10_LengthByBrandOnly ==
  \A n1, n2 \in 1..Len(gens) :
    (/\ gens[n1].synthesized /\ gens[n2].synthesized
     /\ gens[n1].brand = gens[n2].brand
     /\ gens[n1].type = gens[n2].type) =>
      gens[n1].target_length = gens[n2].target_length

\* The lengths the rule table gives a brand family.
RuleLengths(brand) ==
  IF brand = "AMERICAN EXPRESS" THEN {15}
  ELSE IF brand = "DINERS CLUB" THEN {14, 16}
  ELSE {16}

(***************************************************************************)
(* C11.  For every accepted input, of six characters or more, generate     *)
(* returns a card whose number has a length of the rule table: 15 for the  *)
(* Amex family, 14 or 16 for the Diners family, 16 for a default brand.    *)
(***************************************************************************)
C11_LengthMatchesTable ==
  \A n \in 1..Len(gens) :
    (IsAccepted(gens[n].input) /\ Upper(gens[n].brand) # "DISCOVER") =>
      /\ gens[n].outcome = "Card"
      /\ Len(gens[n].number) \in RuleLengths(gens[n].brand)

\* The trimmed input is not 6 to 8 characters long or holds a non-digit.
Malformed(bin_input) ==
  LET t == Strip(bin_input)
  IN  \/ Len(t) < 6
      \/ Len(t) > 8
      \/ \E k \in 1..Len(t) : t[k] \notin 0..9

(***************************************************************************)
(* C12.  A trimmed input that is not 6 to 8 characters long, or that holds *)
(* a non-digit character, is rejected by validate_bin with its format      *)
(* error: it reaches neither the blocklist check, nor the lookup, nor      *)
(* create_card_number.                                                     *)
(***************************************************************************)
C12_MalformedRejected ==
  \A n \in 1..Len(gens) :
    Malformed(gens[n].input) =>
      /\ gens[n].outcome = "ValueError"
      /\ gens[n].message = "TooShort"
      /\ ~gens[n].synthesized

\* Three consecutive digits of s are identical, ascending by 1 or
\* descending by 1.
HasRun3(s) ==
  \E k \in 1..(Len(s) - 2) :
    \/ s[k] = s[k+1] /\ s[k+1] = s[k+2]
    \/ s[k] + 1 = s[k+1] /\ s[k+1] + 1 = s[k+2]
    \/ s[k] - 1 = s[k+1] /\ s[k+1] - 1 = s[k+2]

\* The digits between the prefix and the check digit.
SuffixOf(bin_input, number) ==
  SubSeq(number, Len(bin_input) + 1, Len(number) - 1)

(***************************************************************************)
(* C13.  For every accepted input generate returns a number whose          *)
(* generated suffix (between the prefix and the check digit) has no window *)
(* of three consecutive digits that are identical, ascending by 1 or       *)
(* descending by 1.                                                        *)
(***************************************************************************)
C13_NoRunOfThree ==
  \A n \in 1..Len(gens) :
    IsAccepted(gens[n].input) =>
      /\ gens[n].outcome = "Card"
      /\ ~HasRun3(SuffixOf(gens[n].input, gens[n].number))

C18_UnsupportedCountryError ==
  \A n \in 1..Len(gens) :
    (/\ IsAccepted(gens[n].input)
     /\ gens[n].include_avs
     /\ gens[n].avs_country # ""
     /\ Upper(gens[n].avs_country) \notin AVS_POSTAL_CODES) =>
      /\ gens[n].outcome = "ValueError"
      /\ gens[n].message = "AvsNotSupported"
      /\ gens[n].number = <<>>
      /\ gens[n].postal_code = <<>>

(***************************************************************************)
(* C20.  Every call of create_card_number returns a number, for every      *)
(* brand and every prefix length.                                          *)
(***************************************************************************)
C20_SynthesizerReturns ==
  \A n \in 1..Len(gens) : gens[n].synthesized => gens[n].created

\* A window of three consecutive digits of the partial number (the number
\* without its check digit) that starts in the prefix and reaches into the
\* generated suffix is identical, ascending by 1 or descending by 1.
HasBoundaryRun3(bin_input, number) ==
  LET partial == SubSeq(number, 1, Len(number) - 1)
  IN  \E k \in 1..(Len(partial) - 2) :
        /\ k <= Len(bin_input)
        /\ k + 2 > Len(bin_input)
        /\ HasRun3(SubSeq(partial, k, k + 2))

(***************************************************************************)
(* C26.  For every accepted input generate returns a number in which no    *)
(* window of three consecutive digits that starts in the prefix and        *)
(* reaches into the generated suffix is identical, ascending by 1 or       *)
(* descending by 1: the pattern scan covers the prefix+suffix string.      *)
(***************************************************************************)
C26_ScanCoversBoundary ==
  \A n \in 1..Len(gens) :
    IsAccepted(gens[n].input) =>
      /\ gens[n].outcome = "Card"
      /\ ~HasBoundaryRun3(gens[n].input, gens[n].number)

\* Number of positions of s that hold d.
Occurrences(s, d) == Cardinality({k \in 1..Len(s) : s[k] = d})

\* s and t hold the same digits, each the same number of times.
SameMultiset(s, t) == \A d \in 0..9 : Occurrences(s, d) = Occurrences(t, d)

(***************************************************************************)
(* C27.  Every create_card_number call scans at least one candidate        *)
(* suffix, and all the candidate suffixes of one call, attempt after        *)
(* attempt, are made of the same multiset of digits: a later attempt is a   *)
(* reshuffle of the first, not a fresh sample.                              *)
(***************************************************************************)
C27_ReshuffleSameDigits ==
  \A n \in 1..Len(gens) :
    gens[n].synthesized =>
      /\ gens[n].candidates # <<>>
      /\ \A a, b \in 1..Len(gens[n].candidates) :
           SameMultiset(gens[n].candidates[a], gens[n].candidates[b])

(***************************************************************************)
(* C28.  For every accepted input generate returns a number in whose       *)
(* generated suffix (between the prefix and the check digit) each digit     *)
(* value 0-9 occurs at most 2 times.                                        *)
(***************************************************************************)
C28_DigitCap ==
  \A n \in 1..Len(gens) :
    IsAccepted(gens[n].input) =>
      /\ gens[n].outcome = "Card"
      /\ \A d \in 0..9 :
           Occurrences(SuffixOf(gens[n].input, gens[n].number), d) <= 2

\* The bin_data table has a row for the prefix of the input.
IsKnown(bin_input) == \E d \in BinDataRows : d.bin = PrefixOf(bin_input)

\* The answer of validate_bin kept for generation g follows the order
\* blocklist, then lookup.
ClassifiedInOrder(g) ==
  Len(Strip(g.input)) >= 6 =>
    /\ IsBlocked(g.input) => g.message \in {"TestBinBlocked", "BinBlocked"}
    /\ g.message = "NotFound" <=> ~IsBlocked(g.input) /\ ~IsKnown(g.input)

(***************************************************************************)
(* C29.  validate_bin decides by the first six characters of the trimmed   *)
(* input and checks the blocklists before the bin_data table: a blocked    *)
(* prefix is answered Blocked whether or not bin_data has a row for it, the *)
(* answer NotFound is given only to a prefix that is not blocked and has no *)
(* row, two inputs with the same first six characters get the same answer,  *)
(* and after any number of calls the stores hold what they held at          *)
(* construction.                                                            *)
(***************************************************************************)
C29_BlocklistBeforeLookup ==
  /\ \A n \in 1..Len(gens) : ClassifiedInOrder(gens[n])
  /\ \A n1, n2 \in 1..Len(gens) :
       (/\ n1 < n2
        /\ Len(PrefixOf(gens[n1].input)) = 6
        /\ PrefixOf(gens[n1].input) = PrefixOf(gens[n2].input)) =>
         gens[n1].message = gens[n2].message
  /\ redis = EmptyRedis
  /\ \A p \in Procs : memory_store[p] = EmptyMemory

\* Witness of C29: a test prefix without a bin_data row was answered
\* Blocked, and a prefix that is neither blocked nor in bin_data was
\* answered NotFound.
C29_Witness ==
  /\ \E n \in 1..Len(gens) :
       /\ PrefixOf(gens[n].input) \in TEST_BINS
       /\ ~IsKnown(gens[n].input)
       /\ gens[n].message = "TestBinBlocked"
  /\ \E n \in 1..Len(gens) :
       /\ ~IsBlocked(gens[n].input)
       /\ ~IsKnown(gens[n].input)
       /\ gens[n].message = "NotFound"

(***************************************************************************)
(* The functions of card_generator.py applied one at a time: the check     *)
(* digit loop, generate_cvv, generate_expiry and the expiry of             *)
(* generate_card_with_avs.  A run applies one function to one input and    *)
(* keeps the application in fn.                                            *)
(***************************************************************************)
MaxPartialLen == 3  \* digits of a partial number handed to the check digit loop
NumYears == 2       \* years the generation date is drawn from, from 2024 on

PartialNumbers == UNION {[1..n -> 0..9] : n \in 1..MaxPartialLen}

Dates ==
  {[y |-> yy, m |-> mm, d |-> dd] :
     yy \in 2024..(2024 + NumYears - 1), mm \in 1..12, dd \in 1..31}

GenerationDates == {t \in Dates : t.d <= DaysInMonth(t.y, t.m)}

CardTypes == {r.type : r \in BinDataRows}

\* The leading digits of the card numbers handed to generate_cvv.
CvvNumbers == {<<3,4,0,0>>, <<3,7,8,2>>, <<4,2,4,2>>, <<3,6,2,2>>}

CvvExpiries == {NoneExpiry, [month |-> 1, year |-> 2027]}

\* Digests of SHA-256, cut to seven hexadecimal characters: one with many
\* decimal digits, one of decimal digits only, one with two decimal digits.
Digests == {<<10,1,11,2,3,12,4>>, <<9,0,2,1,0,5,5>>, <<15,15,7,14,1,13,12>>}

\* What the four random.randint(0, 9) of line 199 may draw.
RandomCvvs == {<<0,0,0,0>>, <<7,7,7,7>>, <<1,2,3,4>>}

\* The check-digit loop on one partial number.
Resolve(partial_number) ==
  /\ fn.op = "none"
  /\ fn' = [op |-> "resolve", partial_number |-> partial_number,
            full_number |-> ResolveCheckDigit(partial_number).full_number,
            fallback |-> ResolveCheckDigit(partial_number).fallback]
  /\ UNCHANGED <<limiterVars, gens, ip_limit>>

\* generate_cvv called twice with the same arguments.  The digest is a
\* function of the arguments, so both calls see the same one; the random
\* draws of the two calls are independent.
CvvTwice(card_number, expiry, seed, hash_digest, r1, r2) ==
  /\ fn.op = "none"
  /\ fn' = [op |-> "cvv", card_number |-> card_number, expiry |-> expiry,
            seed |-> seed, hash_digest |-> hash_digest,
            first |-> GenerateCvv(card_number, expiry, seed, hash_digest, r1),
            second |-> GenerateCvv(card_number, expiry, seed, hash_digest, r2)]
  /\ UNCHANGED <<limiterVars, gens, ip_limit>>

\* generate_expiry at one generation date.
Expiry(current_date, card_type, months_to_add) ==
  /\ fn.op = "none"
  /\ months_to_add \in MonthsToAddRange(card_type)
  /\ fn' = [op |-> "expiry", current_date |-> current_date,
            card_type |-> card_type, months_to_add |-> months_to_add,
            expiry |-> GenerateExpiry(current_date, months_to_add)]
  /\ UNCHANGED <<limiterVars, gens, ip_limit>>

\* The expiry of generate_card_with_avs at one generation date:
\* exp_year = randint(current_year + 1, current_year + 8),
\* exp_month = randint(1, 12), whatever the type of the card.
ExpiryWithAvs(current_date, card_type, exp_year, exp_month) ==
  /\ fn.op = "none"
  /\ current_date.d = 1
  /\ exp_year \in (current_date.y + 1)..(current_date.y + 8)
  /\ fn' = [op |-> "avs_expiry", current_date |-> current_date,
            card_type |-> card_type, months_to_add |-> 0,
            expiry |-> AvsExpiry(exp_year, exp_month)]
  /\ UNCHANGED <<limiterVars, gens, ip_limit>>

\* One application in a run: nothing is enabled once fn holds one.
NextFn ==
  /\ fn.op = "none"
  /\ \/ \E partial_number \in PartialNumbers : Resolve(partial_number)
     \/ \E card_number \in CvvNumbers, expiry \in CvvExpiries,
           seed \in BOOLEAN, hash_digest \in Digests,
           r1 \in RandomCvvs, r2 \in RandomCvvs :
          CvvTwice(card_number, expiry, seed, hash_digest, r1, r2)
     \/ \E current_date \in GenerationDates, card_type \in CardTypes,
           months_to_add \in 12..60 :
          Expiry(current_date, card_type, months_to_add)
     \/ \E current_date \in GenerationDates, card_type \in CardTypes,
           exp_year \in 2025..(2024 + NumYears + 7), exp_month \in 1..12 :
          ExpiryWithAvs(current_date, card_type, exp_year, exp_month)

SpecFn == InitGen /\ [][NextFn]_vars

(***************************************************************************)
(* C14.  Two generate_cvv calls with the same number, the same expiry and  *)
(* seed = True return the same CVV.                                        *)
(***************************************************************************)
C14_SeededCvvDeterministic ==
  (fn.op = "cvv" /\ fn.seed) => fn.first = fn.second

\* Calendar months from the month of generation to the month of expiry.
MonthsAhead(current_date, expiry) ==
  (expiry.year - current_date.y) * 12 + (expiry.month - current_date.m)

\* The horizon of a category, in months.
Horizon(card_type) == IF card_type = "PREPAID" THEN 12..24 ELSE 36..60

(***************************************************************************)
(* C15.  The expiry of a card lies 12 to 24 calendar months after the      *)
(* month of generation for a prepaid card and 36 to 60 for every other     *)
(* category, at every generation date, from generate_expiry and from the   *)
(* AVS generation alike.                                                   *)
(***************************************************************************)
C15_ExpiryWithinHorizon ==
  fn.op \in {"expiry", "avs_expiry"} =>
    MonthsAhead(fn.current_date, fn.expiry) \in Horizon(fn.card_type)

(***************************************************************************)
(* C16.  The expiry (month, year) of a card is later than the month of     *)
(* generation: it is never the month of generation nor an earlier one.     *)
(***************************************************************************)
C16_ExpiryInFuture ==
  fn.op \in {"expiry", "avs_expiry"} =>
    MonthsAhead(fn.current_date, fn.expiry) >= 1

\* Witness of C16: generate_expiry with the smallest draw, 12, gave an
\* expiry that is still in the year of generation.
C16_Witness ==
  /\ fn.op = "expiry"
  /\ fn.months_to_add = 12
  /\ fn.expiry.year = fn.current_date.y

(***************************************************************************)
(* C19.  The check-digit loop tries 0..9 in order and returns the number   *)
(* with the first digit that passes; exactly one of the ten candidates     *)
(* passes for every partial number, so the loop always returns and the     *)
(* final fallback (append "0" unverified) is never taken.                  *)
(***************************************************************************)
C19_ExactlyOneCheckDigit ==
  fn.op = "resolve" =>
    LET passing ==
          {c \in 0..9 : LuhnChecksum(Append(fn.partial_number, c))}
    IN  /\ Cardinality(passing) = 1
        /\ ~fn.fallback
        /\ LuhnChecksum(fn.full_number)
        /\ fn.full_number =
             Append(fn.partial_number, CHOOSE c \in passing : TRUE)

\* Witness of C19: the loop went through all ten candidates and returned
\* the number with the last one, 9.
C19_Witness ==
  /\ fn.op = "resolve"
  /\ ~fn.fallback
  /\ fn.full_number[Len(fn.full_number)] = 9

(***************************************************************************)
(* The card routes for an anonymous or free caller: check_rate_limit, then *)
(* generate_test_card, then log_usage.  The requests of a run fall within  *)
(* one 24-hour window of the usage key.                                    *)
(***************************************************************************)
MaxRequests == 4          \* card requests in one run
FREE_IP_DAILY_LIMIT == 3

\* The BINs that reach the route body: six characters after the validator.
RouteBins == { <<4,2,4,2,4,2>>, <<4,1,1,1,1,1>>, <<9,9,9,9,9,9>> }

\* count held by a usage key, 0 when the key is absent
UsageCount(usage_data) == IF usage_data = <<>> THEN 0 ELSE usage_data[1]

\* check_ip_limit: (is_allowed, remaining); ok is FALSE when Redis raises
\* and the except branch lets the request through.
CheckIpLimit(usage, ip_address, limit, ok) ==
  IF ~ok THEN [is_allowed |-> TRUE, remaining |-> limit]
  ELSE IF UsageCount(usage[ip_address]) >= limit
  THEN [is_allowed |-> FALSE, remaining |-> 0]
  ELSE [is_allowed |-> TRUE,
        remaining |-> limit - UsageCount(usage[ip_address])]

\* increment_ip_usage: GET, add one, SETEX; a Redis error is swallowed.
IncrementIpUsage(usage, ip_address, ok) ==
  IF ~ok THEN usage
  ELSE [usage EXCEPT ![ip_address] = <<UsageCount(@) + 1>>]

InitIp ==
  /\ InitStores
  /\ sched = "serial"
  /\ faulty = FALSE
  /\ hasRedis = [p \in Procs |-> TRUE]

\* A request from ip_address enters a card route in worker p.
Arrive(p, ip_address, bin) ==
  /\ ip_limit.req[p].pc \in {"idle", "done"}
  /\ ip_limit.requests < MaxRequests
  /\ ip_limit' = [ip_limit EXCEPT
       !.req[p] = [pc |-> "check", addr |-> ip_address, bin |-> bin,
                   status |-> 0],
       !.requests = @ + 1]
  /\ UNCHANGED <<limiterVars, gens, fn>>

\* check_rate_limit(current_user, request) for a caller without a premium
\* tier, and the 429 answer of the route.
CheckRateLimit(p, ok) ==
  LET r == ip_limit.req[p]
      c == CheckIpLimit(ip_limit.usage, r.addr, FREE_IP_DAILY_LIMIT, ok)
  IN  /\ r.pc = "check"
      /\ ip_limit' =
           IF c.is_allowed
           THEN [ip_limit EXCEPT
                   !.req[p].pc = "generate",
                   !.passed[r.addr] = IF IsAccepted(r.bin) THEN @ + 1 ELSE @]
           ELSE [ip_limit EXCEPT !.req[p].pc = "done",
                                 !.req[p].status = 429]
      /\ UNCHANGED <<limiterVars, gens, fn>>

\* The try block of the route: generate_test_card, then log_usage, which
\* runs only when generate_test_card returned a card; a ValueError is
\* answered 400, any other exception 500.
GenerateCard(p, rnd, ok) ==
  LET r == ip_limit.req[p]
      g == GenerateTestCard(r.bin, FALSE, "", rnd)
  IN  /\ r.pc = "generate"
      /\ ip_limit' =
           IF g.outcome = "Card"
           THEN [ip_limit EXCEPT
                   !.usage = IncrementIpUsage(ip_limit.usage, r.addr, ok),
                   !.served[r.addr] = @ + 1,
                   !.req[p].pc = "done", !.req[p].status = 200]
           ELSE [ip_limit EXCEPT
                   !.req[p].pc = "done",
                   !.req[p].status =
                     IF g.outcome = "ValueError" THEN 400 ELSE 500]
      /\ UNCHANGED <<limiterVars, gens, fn>>

NextIp ==
  \/ \E p \in Procs, ip_address \in IpAddrs, bin \in RouteBins :
       Arrive(p, ip_address, bin)
  \/ \E p \in Procs, ok \in BOOLEAN : CheckRateLimit(p, ok)
  \/ \E p \in Procs, rnd \in GenDraws, ok \in BOOLEAN : GenerateCard(p, rnd, ok)

SpecIp == InitIp /\ [][NextIp]_vars

(***************************************************************************)
(* C30.  Within one 24-hour window, of the requests of one IP address for  *)
(* a BIN that validate_bin accepts, the card routes let at most            *)
(* FREE_IP_DAILY_LIMIT through check_rate_limit to the generator, and       *)
(* answer at most FREE_IP_DAILY_LIMIT of them with a card, however the      *)
(* requests interleave.                                                     *)
(***************************************************************************)
C30_IpLimitHolds ==
  \A a \in IpAddrs :
    /\ ip_limit.passed[a] <= FREE_IP_DAILY_LIMIT
    /\ ip_limit.served[a] <= FREE_IP_DAILY_LIMIT

Next ==
  \/ Tick
  \/ \E p \in Procs, id \in Idents, act \in Actions : Start(p, id, act)
  \/ \E p \in Procs : Usage(p)
  \/ \E p \in Procs : BurstCheck(p)
  \/ \E p \in Procs : Decide(p)
  \/ \E p \in Procs : Deny(p)
  \/ \E p \in Procs : Admit(p)

Spec == Init /\ [][Next]_vars
SpecSerial == InitSerial /\ [][Next]_vars
SpecPaired == InitPaired /\ [][Next]_vars
SpecKeys == InitKeys /\ [][Next]_vars

TypeOK ==
  /\ now \in 0..MaxTime
  /\ \A p \in Procs : proc[p].result \in {"none", "Admitted", "Denied", "StoreError"}

Done(p) == proc[p].pc = "done"

(***************************************************************************)
(* C3.  With a limit of N per window a worker never admits more than N     *)
(* calls of one (identity, action) inside one window: the (N+1)th call is  *)
(* denied, whatever the seconds at which the calls arrive.                 *)
(* hist[p].served[k] holds the seconds of the admitted calls that are      *)
(* still inside the window.                                                *)
(***************************************************************************)
C3_AtMostLimitPerWindow ==
  \A p \in Procs, k \in Keys :
    Len(InWindow(hist[p].served[k], now, RateLimits(k[2]).window))
      <= RateLimits(k[2]).requests

(***************************************************************************)
(* C4.  Two concurrent calls on the same key are never both admitted into  *)
(* the last free slot: a call that counted one below the limit is not      *)
(* admitted when, between its count and its record, the shared store       *)
(* recorded the admission of another call that had also counted one below  *)
(* the limit.                                                              *)
(***************************************************************************)
C4_NoDoubleAdmission ==
  \A p \in Procs :
    ~(Done(p) /\ proc[p].result = "Admitted"
        /\ proc[p].overtaken /\ proc[p].lastSlot)

(***************************************************************************)
(* C5.  The k-th successive denial of an identity returns                  *)
(* retryAfter = 60 s times 1, 2, 4, 8, 16 for k = 1..5 and 16 x 60 s       *)
(* afterwards (stated while no violation counter can have expired).        *)
(***************************************************************************)
ClaimedMultiplier(k) == 2 ^ (Min(k, 5) - 1)

C5_ProgressivePenalty ==
  \A p \in Procs :
    (Done(p) /\ proc[p].result = "Denied" /\ now < ViolationTTL) =>
      proc[p].retry_after
        = BaseDelay * ClaimedMultiplier(hist[p].denials[proc[p].id])

(***************************************************************************)
(* C6.  A call that begins when every recorded marker of its key is older  *)
(* than the window is admitted (one call at a time).                       *)
(***************************************************************************)
C6_AdmissionResumes ==
  \A p \in Procs : (Done(p) /\ proc[p].fresh) => proc[p].result = "Admitted"

\* Witness of C6: an identity that was denied before is admitted again by a
\* call that found all its markers older than the window.
C6_Witness ==
  \E p \in Procs :
    /\ Done(p) /\ proc[p].fresh /\ proc[p].result = "Admitted"
    /\ now >= RateLimits(proc[p].act).window
    /\ redis.v[proc[p].id] > 0 \/ memory_store[p].v[proc[p].id] > 0

(***************************************************************************)
(* C7.  Fed the same calls at the same seconds, the worker on the          *)
(* in-process map and the worker on Redis give the same answers: the same  *)
(* admit/deny decision and the same retryAfter.                            *)
(***************************************************************************)
C7_FallbackEquivalent ==
  (sched = "paired" /\ Done(1) /\ Done(2)
     /\ proc[1].ncalls = proc[2].ncalls) =>
    /\ proc[1].result = proc[2].result
    /\ proc[1].retry_after = proc[2].retry_after

(***************************************************************************)
(* C8.  Whatever Redis round trip raises, a finished check_rate_limit call *)
(* has answered Admitted or Denied(retryAfter), never a store error.       *)
(***************************************************************************)
C8_NeverHardFails ==
  \A p \in Procs : Done(p) => proc[p].result \in {"Admitted", "Denied"}

\* Witness of C8: a call in which a Redis round trip raised has answered.
C8_Witness ==
  \E p \in Procs :
    Done(p) /\ proc[p].failed /\ proc[p].result \in {"Admitted", "Denied"}
\* The violation count the worker reads for an identity.
StoredViolations(p, id) ==
  IF hasRedis[p] THEN redis.v[id] ELSE memory_store[p].v[id]

(***************************************************************************)
(* C21.  When the violation TTL (one hour) has passed since the last       *)
(* denial of an identity, the violation count the worker holds for it is 0 *)
(* again, on Redis and on the in-process map.                              *)
(***************************************************************************)
C21_ViolationsReset ==
  \A p \in Procs, id \in Idents :
    (\E t \in hist[p].lastDenial[id] : now - t >= ViolationTTL) =>
      StoredViolations(p, id) = 0

\* The markers of a key in the worker's store that lie in the burst
\* sub-window.
BurstMarkers(p, key) ==
  IF hasRedis[p]
  THEN Cardinality({m \in redis.z[key] : m >= now - BurstWindow})
  ELSE Cardinality({k \in 1..Len(memory_store[p].z[key]) :
                      memory_store[p].z[key][k] >= now - BurstWindow})

(***************************************************************************)
(* C22.  In every store mode a call is denied once the markers of its key  *)
(* in the burst sub-window have reached the burst limit: a worker's store  *)
(* never holds more than the burst limit of markers of one key inside the  *)
(* burst sub-window.                                                       *)
(***************************************************************************)
C22_BurstEnforced ==
  \A p \in Procs, key \in Keys : BurstMarkers(p, key) <= Burst

(***************************************************************************)
(* C23.  After a denial with retryAfter = d no call of the same identity   *)
(* and action is admitted before d seconds have passed.                    *)
(***************************************************************************)
C23_LockedOut ==
  \A p \in Procs : ~hist[p].earlyAdmit

\* The markers of a key in the worker's store.
Markers(p, key) ==
  IF hasRedis[p] THEN Cardinality(redis.z[key])
  ELSE Len(memory_store[p].z[key])

(***************************************************************************)
(* C24.  The step that admits a call adds exactly one marker to the key's  *)
(* window and leaves the violation count of the identity as it is; the     *)
(* step that denies a call adds 1 to the violation count and no marker.    *)
(***************************************************************************)
C24_FrameEffects ==
  [][\A p \in Procs :
       /\ (proc[p].pc = "record" /\ proc'[p].result = "Admitted") =>
            /\ Markers(p, KeyOf(p))' = Markers(p, KeyOf(p)) + 1
            /\ StoredViolations(p, proc[p].id)'
                 = StoredViolations(p, proc[p].id)
       /\ (proc[p].pc = "limited" /\ proc'[p].result = "Denied") =>
            /\ StoredViolations(p, proc[p].id)'
                 = StoredViolations(p, proc[p].id) + 1
            /\ Markers(p, KeyOf(p))' = Markers(p, KeyOf(p))]_vars

\* The key and the identity of the call in flight, as its caller names them.
OwnKey(p) == <<proc[p].id, proc[p].act>>

\* The markers of a key that the worker counts in the window.
WindowMarkers(p, key) ==
  IF hasRedis[p]
  THEN Cardinality({m \in redis.z[key] : m > now - RateLimits(key[2]).window})
  ELSE Len(InWindow(memory_store[p].z[key], now, RateLimits(key[2]).window))

(***************************************************************************)
(* C25.  Keys are independent.  A step of a call for identity A and action *)
(* X leaves the window of every other key and the violation count of every *)
(* other identity as they are, in Redis and in every in-process map; and   *)
(* the call is denied exactly when the markers of (A, X) have reached the  *)
(* limit of the window or of the burst sub-window.                         *)
(***************************************************************************)
C25_KeysIndependent ==
  [][\A p \in Procs :
       (InFlight(p) /\ now' = now) =>
         /\ \A key \in Keys \ {OwnKey(p)} :
              /\ redis'.z[key] = redis.z[key]
              /\ redis'.zx[key] = redis.zx[key]
              /\ \A q \in Procs :
                   memory_store'[q].z[key] = memory_store[q].z[key]
         /\ \A id \in Idents \ {proc[p].id} :
              /\ redis'.v[id] = redis.v[id]
              /\ redis'.vx[id] = redis.vx[id]
              /\ \A q \in Procs : memory_store'[q].v[id] = memory_store[q].v[id]
         /\ proc[p].pc = "violations" =>
              (proc'[p].pc = "limited" <=>
                 \/ WindowMarkers(p, OwnKey(p))
                      >= RateLimits(proc[p].act).requests
                 \/ hasRedis[p] /\ BurstMarkers(p, OwnKey(p))
                                     >= RateLimits(proc[p].act).burst)]_vars

\* Witness of C25: a call of one key was denied while another key of the
\* same store holds markers and another identity has no violation.
C25_Witness ==
  \E p \in Procs :
    /\ proc[p].pc = "done" /\ proc[p].result = "Denied"
    /\ \E key \in Keys \ {OwnKey(p)} : Markers(p, key) > 0
    /\ \E id \in Idents \ {proc[p].id} : StoredViolations(p, id) = 0
    /\ StoredViolations(p, proc[p].id) > 0

====
